---- MODULE Spec2Model ----
(***************************************************************************)
(* Spatial Asset Register: the server's filter / QA / identifier / CRUD    *)
(* logic, in its in-memory variant (src/server/auth.ts, second half) and   *)
(* its persistent-store variant (src/server/index.ts).                     *)
(*                                                                         *)
(* Strings are sequences of one-character strings, so that lower-casing,   *)
(* substring search, splitting and joining are computed and not assumed.   *)
(* A coordinate is a tagged value: a number, JSON null, or a field that is *)
(* not there at all (JavaScript undefined).                                *)
(***************************************************************************)
EXTENDS Integers, Sequences, FiniteSets, TLC

VARIABLES
    records,      \* argument of the pure function under check (Asset[])
    query,        \* argument of filterAssets / buildMongoFilter (req.query)
    result,       \* what the applied function returned
    existingIds,  \* generateUniqueAssetId: the ids the candidate is tested against
    attempts,     \* generateUniqueAssetId: loop counter
    allocated,    \* generateUniqueAssetId: outcome of the loop
    assets,       \* in-memory variant: `let assets`
    responses,    \* in-memory variant: the responses sent so far
    db,           \* persistent variant: documents of the "assets" collection
    reqs,         \* persistent variant: the requests in flight
    session,      \* client: whether a session is set
    appFilters,   \* client: the selected filter criteria (the state `filters` of App)
    viewAssets,   \* client: the displayed list (the state `assets` of App)
    allAssets,    \* client: the unfiltered list
    loading,      \* client: the loading flag
    error,        \* client: the error text
    loads         \* client: the loadAssets calls awaiting their responses

vars == <<records, query, result, existingIds, attempts, allocated,
          assets, responses, db, reqs,
          session, appFilters, viewAssets, allAssets, loading, error, loads>>

pureVars == <<records, query, result>>
allocVars == <<existingIds, attempts, allocated>>
memVars == <<assets, responses>>
dbVars == <<db, reqs>>
clientVars == <<session, appFilters, viewAssets, allAssets, loading, error, loads>>

-----------------------------------------------------------------------------
(* Bounds of the model *)

\* longest list handed to runQaChecks and to the filters
MaxRecords == 2

\* the attempt limit of generateUniqueAssetId (10000 in the source), scaled
MaxAttempts == 3

\* Math.random() is sampled at 0, 1/RandSteps, ..., and just below 1
RandSteps == 2

\* requests a server receives in one behaviour
MaxRequests == 2

\* loadAssets calls of the client awaiting their responses at one time
MaxLoads == 2

-----------------------------------------------------------------------------
(* Strings *)

RECURSIVE Join(_, _)
\* Array.prototype.join(sep)
Join(ss, sep) ==
    IF ss = <<>> THEN <<>>
    ELSE IF Len(ss) = 1 THEN Head(ss)
    ELSE Head(ss) \o sep \o Join(Tail(ss), sep)

DigitChar == <<"0", "1", "2", "3", "4", "5", "6", "7", "8", "9">>

RECURSIVE NatToStr(_)
\* decimal digits of a natural number
NatToStr(n) ==
    IF n < 10 THEN <<DigitChar[n + 1]>>
    ELSE NatToStr(n \div 10) \o <<DigitChar[(n % 10) + 1]>>

\* String.prototype.includes / Array.prototype.includes on a contiguous run
Includes(s, sub) ==
    \E k \in 0..(Len(s) - Len(sub)) : SubSeq(s, k + 1, k + Len(sub)) = sub

UpperChar == <<"A", "B", "C", "D", "E", "F", "G", "H", "I", "J", "K", "L", "M",
               "N", "O", "P", "Q", "R", "S", "T", "U", "V", "W", "X", "Y", "Z">>
LowerChar == <<"a", "b", "c", "d", "e", "f", "g", "h", "i", "j", "k", "l", "m",
               "n", "o", "p", "q", "r", "s", "t", "u", "v", "w", "x", "y", "z">>

\* lower-case form of one character
ToLowerChar(c) ==
    IF \E i \in 1..26 : UpperChar[i] = c
    THEN LowerChar[CHOOSE i \in 1..26 : UpperChar[i] = c]
    ELSE c

\* String.prototype.toLowerCase
ToLowerCase(s) == [i \in 1..Len(s) |-> ToLowerChar(s[i])]

RECURSIVE Split(_, _)
\* String.prototype.split(sep) for a one-character separator
Split(s, sep) ==
    IF \E i \in 1..Len(s) : s[i] = sep
    THEN LET i == CHOOSE k \in 1..Len(s) : s[k] = sep /\ \A m \in 1..(k - 1) : s[m] # sep
         IN <<SubSeq(s, 1, i - 1)>> \o Split(SubSeq(s, i + 1, Len(s)), sep)
    ELSE <<s>>

\* the list left as split gave it, empty items included
FilterBoolean_KeepsEmpty(ss) == ss

\* Array.prototype.filter(Boolean) on a list of strings
FilterBoolean(ss) == SelectSeq(ss, LAMBDA x : x # <<>>)

\* String(n) for an integer n
NumToStr(n) == IF n < 0 THEN <<"-">> \o NatToStr(0 - n) ELSE NatToStr(n)

-----------------------------------------------------------------------------
(* Objects and coordinates.  An asset is a function from its property names *)
(* to values; a coordinate is number | null, and reading a property the    *)
(* object does not have gives undefined.                                   *)

Num(n) == [k |-> "number", v |-> n]
Null == [k |-> "null", v |-> 0]
Undefined == [k |-> "undefined", v |-> 0]

\* property access o.f
Prop(o, f) == IF f \in DOMAIN o THEN o[f] ELSE Undefined

\* object spread { ...a, ...b }
Spread(a, b) == [f \in DOMAIN a \cup DOMAIN b |-> IF f \in DOMAIN b THEN b[f] ELSE a[f]]

\* x === null
IsNull(c) == c.k = "null"

\* template-literal conversion `${c}` of a coordinate
CoordToStr(c) ==
    IF c.k = "number" THEN NumToStr(c.v)
    ELSE IF c.k = "null" THEN <<"n", "u", "l", "l">>
    ELSE <<"u", "n", "d", "e", "f", "i", "n", "e", "d">>

-----------------------------------------------------------------------------
(* Quality inspector: runQaChecks *)

MissingCoordinates(asset) ==
    [code |-> "MISSING_COORDINATES", assetId |-> asset.id,
     message |-> <<"Latitude/Longitude is missing.">>]

MissingFields(asset) ==
    [code |-> "MISSING_FIELDS", assetId |-> asset.id,
     message |-> <<"One or more required fields are empty.">>]

\* const key = `${asset.latitude},${asset.longitude}`
PointKey(asset) ==
    CoordToStr(Prop(asset, "latitude")) \o <<",">> \o CoordToStr(Prop(asset, "longitude"))

\* the first branch of the forEach body: latitude === null || longitude === null
HasNullCoordinate(asset) ==
    IsNull(Prop(asset, "latitude")) \/ IsNull(Prop(asset, "longitude"))

\* HasEmptyField with the status test left out
HasEmptyField_NoStatus(asset) ==
    asset.name = <<>> \/ asset.region = <<>> \/ asset.type = <<>>

\* !asset.name || !asset.region || !asset.type || !asset.status
HasEmptyField(asset) ==
    asset.name = <<>> \/ asset.region = <<>> \/ asset.type = <<>> \/ asset.status = <<>>

\* index of key in the Map (a list of entries in insertion order), 0 if none
BucketIndex(buckets, key) ==
    IF \E i \in 1..Len(buckets) : buckets[i].key = key
    THEN CHOOSE i \in 1..Len(buckets) : buckets[i].key = key
    ELSE 0

\* list = pointBuckets.get(key) ?? []; list.push(id); pointBuckets.set(key, list)
BucketPush(buckets, key, id) ==
    LET i == BucketIndex(buckets, key) IN
    IF i = 0 THEN Append(buckets, [key |-> key, ids |-> <<id>>])
    ELSE [buckets EXCEPT ![i].ids = Append(@, id)]

RECURSIVE ScanRecords(_, _)
\* records.forEach(...): acc is [issues, pointBuckets]
ScanRecords(recs, acc) ==
    IF recs = <<>> THEN acc
    ELSE
      LET asset == Head(recs)
          i1 == IF HasNullCoordinate(asset)
                THEN Append(acc.issues, MissingCoordinates(asset))
                ELSE acc.issues
          b1 == IF HasNullCoordinate(asset)
                THEN acc.pointBuckets
                ELSE BucketPush(acc.pointBuckets, PointKey(asset), asset.id)
          i2 == IF HasEmptyField(asset)
                THEN Append(i1, MissingFields(asset))
                ELSE i1
      IN ScanRecords(Tail(recs), [issues |-> i2, pointBuckets |-> b1])

\* OtherIds without the filter: the asset's own id stays in the list
OtherIds_KeepOwn(ids, id) == ids

\* ids.filter((x) => x !== id)
OtherIds(ids, id) == SelectSeq(ids, LAMBDA x : x # id)

DuplicateMessage(ids, id) ==
    <<"Shares coordinates with assets: ">> \o Join(OtherIds(ids, id), <<",", " ">>) \o <<".">>

\* ids.forEach((id) => issues.push({code: "DUPLICATE_POINT", ...}))
BucketIssues(ids) ==
    [i \in 1..Len(ids) |->
        [code |-> "DUPLICATE_POINT", assetId |-> ids[i],
         message |-> DuplicateMessage(ids, ids[i])]]

RECURSIVE ScanBuckets(_, _)
\* pointBuckets.forEach((ids) => { if (ids.length > 1) ... })
ScanBuckets(buckets, issues) ==
    IF buckets = <<>> THEN issues
    ELSE ScanBuckets(Tail(buckets),
                     IF Len(Head(buckets).ids) > 1
                     THEN issues \o BucketIssues(Head(buckets).ids)
                     ELSE issues)

runQaChecks(recs) ==
    LET scanned == ScanRecords(recs, [issues |-> <<>>, pointBuckets |-> <<>>])
    IN ScanBuckets(scanned.pointBuckets, scanned.issues)

-----------------------------------------------------------------------------
(* Filter engine *)

\* a query parameter: a string, or not in the query at all
QStr(s) == [k |-> "string", s |-> s]
QAbsent == [k |-> "undefined", s |-> <<>>]

\* (query.x ?? "")
OrEmpty(q) == IF q.k = "undefined" THEN <<>> ELSE q.s

\* (query.x ?? "").toLowerCase().split(",").filter(Boolean)
CriteriaList(q) == FilterBoolean(Split(ToLowerCase(OrEmpty(q)), ","))

\* Array.prototype.includes
ListIncludes(list, x) == \E i \in 1..Len(list) : list[i] = x

\* in-memory variant: assets.filter((asset) => ...)
filterAssets(all, q) ==
    LET search == ToLowerCase(OrEmpty(q.search))
        regions == CriteriaList(q.region)
        types == CriteriaList(q.type)
        statuses == CriteriaList(q.status)
        keep(asset) ==
            LET nameMatch == search = <<>> \/ Includes(ToLowerCase(asset.name), search)
                regionMatch == Len(regions) = 0 \/ ListIncludes(regions, ToLowerCase(asset.region))
                typeMatch == Len(types) = 0 \/ ListIncludes(types, ToLowerCase(asset.type))
                statusMatch == Len(statuses) = 0 \/ ListIncludes(statuses, ToLowerCase(asset.status))
            IN nameMatch /\ regionMatch /\ typeMatch /\ statusMatch
    IN SelectSeq(all, keep)

\* `^${x}$`
Anchored(x) == <<"^">> \o x \o <<"$">>

\* persistent variant: the filter document handed to collection.find
buildMongoFilter(q) ==
    LET search == ToLowerCase(OrEmpty(q.search))
        regions == CriteriaList(q.region)
        types == CriteriaList(q.type)
        statuses == CriteriaList(q.status)
        f1 == IF search # <<>>
              THEN <<[field |-> "name", patterns |-> <<search>>]>> ELSE <<>>
        f2 == IF Len(regions) > 0
              THEN <<[field |-> "region",
                      patterns |-> [i \in 1..Len(regions) |-> Anchored(regions[i])]]>>
              ELSE <<>>
        f3 == IF Len(types) > 0
              THEN <<[field |-> "type",
                      patterns |-> [i \in 1..Len(types) |-> Anchored(types[i])]]>>
              ELSE <<>>
        f4 == IF Len(statuses) > 0
              THEN <<[field |-> "status",
                      patterns |-> [i \in 1..Len(statuses) |-> Anchored(statuses[i])]]>>
              ELSE <<>>
    IN f1 \o f2 \o f3 \o f4

RECURSIVE RegexMatchFrom(_, _, _)
\* a case-insensitive regular expression made of literals, ".", "^" and "$"
\* matches s starting at position i
RegexMatchFrom(p, s, i) ==
    IF p = <<>> THEN TRUE
    ELSE IF Head(p) = "^" THEN i = 1 /\ RegexMatchFrom(Tail(p), s, i)
    ELSE IF Head(p) = "$" THEN i = Len(s) + 1 /\ RegexMatchFrom(Tail(p), s, i)
    ELSE IF Head(p) = "." THEN i <= Len(s) /\ RegexMatchFrom(Tail(p), s, i + 1)
    ELSE /\ i <= Len(s)
         /\ ToLowerChar(s[i]) = ToLowerChar(Head(p))
         /\ RegexMatchFrom(Tail(p), s, i + 1)

\* { $regex: p, $options: "i" } / new RegExp(p, "i") applied to a string field
RegexTest(p, s) == \E i \in 1..(Len(s) + 1) : RegexMatchFrom(p, s, i)

\* a document satisfies { $and: filters }: every clause has a matching pattern
MongoMatches(doc, filters) ==
    \A n \in 1..Len(filters) :
        \E m \in 1..Len(filters[n].patterns) :
            RegexTest(filters[n].patterns[m], doc[filters[n].field])

\* collection.find(filter).toArray()
MongoFind(docs, filters) == SelectSeq(docs, LAMBDA d : MongoMatches(d, filters))

-----------------------------------------------------------------------------
(* Exporters *)

\* String(field) of a string-valued property; a missing property reads as
\* undefined
FieldToStr(asset, f) ==
    IF f \in DOMAIN asset THEN asset[f]
    ELSE <<"u", "n", "d", "e", "f", "i", "n", "e", "d">>

\* String(asset.latitude) without the ?? "": null renders as the word null
NullishToStr_Word(c) == CoordToStr(c)

\* String(asset.latitude ?? ""): null and undefined become the empty string
NullishToStr(c) == IF c.k = "number" THEN NumToStr(c.v) ELSE <<>>

\* the field left as it is, embedded quotes not doubled
ReplaceAllQuotes_None(s) == s

RECURSIVE ReplaceAllQuotes(_)
\* replaceAll("\"", "\"\"")
ReplaceAllQuotes(s) ==
    IF s = <<>> THEN <<>>
    ELSE (IF Head(s) = "\"" THEN <<"\"", "\"">> ELSE <<Head(s)>>)
            \o ReplaceAllQuotes(Tail(s))

\* `"${String(field).replaceAll(...)}"`
CsvField(s) == <<"\"">> \o ReplaceAllQuotes(s) \o <<"\"">>

CsvHeaders ==
    << <<"i", "d">>, <<"n", "a", "m", "e">>, <<"r", "e", "g", "i", "o", "n">>,
       <<"t", "y", "p", "e">>, <<"s", "t", "a", "t", "u", "s">>,
       <<"l", "a", "t", "i", "t", "u", "d", "e">>,
       <<"l", "o", "n", "g", "i", "t", "u", "d", "e">>,
       <<"c", "r", "e", "a", "t", "e", "d", "A", "t">>,
       <<"u", "p", "d", "a", "t", "e", "d", "A", "t">> >>

\* one row of toCsv: the nine fields quoted and joined by ","
CsvRow(asset) ==
    LET fields == << FieldToStr(asset, "id"), FieldToStr(asset, "name"),
                     FieldToStr(asset, "region"), FieldToStr(asset, "type"),
                     FieldToStr(asset, "status"),
                     NullishToStr(Prop(asset, "latitude")),
                     NullishToStr(Prop(asset, "longitude")),
                     FieldToStr(asset, "createdAt"), FieldToStr(asset, "updatedAt") >>
    IN Join([i \in 1..Len(fields) |-> CsvField(fields[i])], <<",">>)

\* [headers.join(","), ...rows].join("\n")
toCsv(recs) ==
    Join(<<Join(CsvHeaders, <<",">>)>> \o [i \in 1..Len(recs) |-> CsvRow(recs[i])],
         <<"\n">>)

\* .filter((asset) => asset.latitude !== null && asset.longitude !== null)
HasPoint(asset) ==
    ~IsNull(Prop(asset, "latitude")) /\ ~IsNull(Prop(asset, "longitude"))

\* a feature with latitude first
Feature_Swapped(asset) ==
    [type |-> "Feature",
     geometry |-> [type |-> "Point",
                   coordinates |-> <<Prop(asset, "latitude"), Prop(asset, "longitude")>>],
     properties |-> [f \in {"id", "name", "region", "type", "status",
                            "createdAt", "updatedAt"} |-> FieldToStr(asset, f)]]

\* one feature of the GeoJSON export
Feature(asset) ==
    [type |-> "Feature",
     geometry |-> [type |-> "Point",
                   coordinates |-> <<Prop(asset, "longitude"), Prop(asset, "latitude")>>],
     properties |-> [f \in {"id", "name", "region", "type", "status",
                            "createdAt", "updatedAt"} |-> FieldToStr(asset, f)]]

\* the object handed to JSON.stringify by GET /api/assets/export/geojson
toGeoJson(recs) ==
    LET kept == SelectSeq(recs, HasPoint) IN
    [type |-> "FeatureCollection",
     features |-> [i \in 1..Len(kept) |-> Feature(kept[i])]]

-----------------------------------------------------------------------------
(* Identifier allocator: generateUniqueAssetId *)

\* Math.floor(1000 + Math.random() * 9000)
IdBase == 1000
IdSpan == 9000

\* values of Math.random(), as fractions num/den in [0, 1)
RandomDraws ==
    { [num |-> k * IdSpan, den |-> RandSteps * IdSpan] : k \in 0..(RandSteps - 1) }
        \cup { [num |-> RandSteps * IdSpan - 1, den |-> RandSteps * IdSpan] }

\* const candidate = `A-${Math.floor(1000 + Math.random() * 9000)}`
Candidate(r) == <<"A", "-">> \o NumToStr(IdBase + ((r.num * IdSpan) \div r.den))

\* LoopContinues with <= in place of <
LoopContinues_OffByOne(att) == att <= MaxAttempts

\* the for-loop condition: attempts < 10000
LoopContinues(att) == att < MaxAttempts

\* Accepts with the negation lost
Accepts_Inverted(existing, candidate) == candidate \in existing

\* if (!existingIds.has(candidate)) return candidate
Accepts(existing, candidate) == candidate \notin existing

RECURSIVE AllocOutcomes(_, _)
\* every way the loop can end from iteration att: an id returned, or the throw
AllocOutcomes(existing, att) ==
    IF LoopContinues(att)
    THEN UNION { IF Accepts(existing, Candidate(r))
                 THEN { [state |-> "returned", id |-> Candidate(r)] }
                 ELSE AllocOutcomes(existing, att + 1) : r \in RandomDraws }
    ELSE { [state |-> "thrown", id |-> <<>>] }

\* generateUniqueAssetId(records) of the in-memory variant
generateUniqueAssetId(recs) ==
    AllocOutcomes({ recs[i].id : i \in DOMAIN recs }, 0)

-----------------------------------------------------------------------------
(* Values of the variables a specification does not use *)

NoResult == [op |-> "none", value |-> <<>>]
NoQuery == [search |-> QAbsent, region |-> QAbsent, type |-> QAbsent, status |-> QAbsent]

PureIdle == records = <<>> /\ query = NoQuery /\ result = NoResult
AllocIdle ==
    existingIds = {} /\ attempts = 0 /\ allocated = [state |-> "idle", id |-> <<>>, draws |-> 0]
MemIdle == assets = <<>> /\ responses = <<>>
DbIdle == db = <<>> /\ reqs = <<>>

\* const defaultFilters
defaultFilters == [search |-> <<>>, region |-> <<>>, type |-> <<>>, status |-> <<>>]

\* the useState initial values of App
ClientIdle ==
    /\ session = FALSE
    /\ appFilters = defaultFilters
    /\ viewAssets = <<>>
    /\ allAssets = <<>>
    /\ loading = FALSE
    /\ error = ""
    /\ loads = <<>>

-----------------------------------------------------------------------------
(* Specification SpecQa: runQaChecks applied to a list of assets *)

\* ids of the assets handed to the inspector: A-1, A-2, ...
QaId(i) == <<"A", "-">> \o NatToStr(i)

\* (latitude, longitude) of an inspected asset: numbers, null, or undefined
\* for a record stored from a payload that had no such property
QaPoints ==
    { <<Num(1), Num(1)>>, <<Num(1), Num(23)>>, <<Num(12), Num(3)>>,
      <<Null, Null>>, <<Num(1), Null>>, <<Null, Num(1)>>,
      <<Undefined, Undefined>>, <<Undefined, Num(1)>> }

\* which of the required fields is the empty string
QaEmpty == {"none", "name", "region", "type", "status"}

\* the object with property f, or with no property when the value is undefined
OptProp(f, v) == IF v.k = "undefined" THEN <<>> ELSE [x \in {f} |-> v]

QaAsset(i, pt, e) ==
    Spread(Spread([id |-> QaId(i),
                   name |-> IF e = "name" THEN <<>> ELSE <<"X">>,
                   region |-> IF e = "region" THEN <<>> ELSE <<"R">>,
                   type |-> IF e = "type" THEN <<>> ELSE <<"T">>,
                   status |-> IF e = "status" THEN <<>> ELSE <<"A", "c", "t", "i", "v", "e">>,
                   createdAt |-> <<"t", "0">>,
                   updatedAt |-> <<"t", "0">>],
                  OptProp("latitude", pt[1])),
           OptProp("longitude", pt[2]))

InitQa ==
    /\ \E n \in 0..MaxRecords :
          \E f \in [1..n -> QaPoints \X QaEmpty] :
              records = [i \in 1..n |-> QaAsset(i, f[i][1], f[i][2])]
    /\ query = NoQuery
    /\ result = NoResult
    /\ AllocIdle /\ MemIdle /\ DbIdle /\ ClientIdle

\* GET /api/assets/qa: res.json(runQaChecks(records))
Inspect ==
    /\ result.op = "none"
    /\ result' = [op |-> "qa", value |-> runQaChecks(records)]
    /\ UNCHANGED <<records, query, allocVars, memVars, dbVars, clientVars>>

NextQa == Inspect

SpecQa == InitQa /\ [][NextQa]_vars

-----------------------------------------------------------------------------
(* Claims about the quality inspector (checked under SpecQa) *)

\* a coordinate that has a value
Present(c) == c.k = "number"
BothPresent(a) == Present(Prop(a, "latitude")) /\ Present(Prop(a, "longitude"))

\* both assets have both coordinates and the pairs are equal
SamePoint(a, b) ==
    /\ BothPresent(a) /\ BothPresent(b)
    /\ a.latitude.v = b.latitude.v
    /\ a.longitude.v = b.longitude.v

\* positions in the returned list of the issues with this code for this asset
IssuesFor(code, id) ==
    { n \in DOMAIN result.value :
        result.value[n].code = code /\ result.value[n].assetId = id }

\* ids of the other assets at the point of records[i], in list order
SharingIds(i) ==
    LET sel == SelectSeq(records, LAMBDA r : r.id # records[i].id /\ SamePoint(r, records[i]))
    IN [k \in 1..Len(sel) |-> sel[k].id]

\* C4: inspect emits a DUPLICATE_POINT issue for X iff X has both coordinates
\* and another asset has exactly the same pair; exactly one per such asset,
\* whose message lists the ids of the others of the group and not its own.
C4_DuplicatePointIffSharedPair ==
    result.op = "qa" =>
        \A i \in DOMAIN records :
            LET dup == IssuesFor("DUPLICATE_POINT", records[i].id) IN
            /\ (dup # {}) <=> (BothPresent(records[i]) /\ SharingIds(i) # <<>>)
            /\ Cardinality(dup) <= 1
            /\ \A n \in dup :
                 result.value[n].message =
                     <<"Shares coordinates with assets: ">>
                        \o Join(SharingIds(i), <<",", " ">>) \o <<".">>

\* C5: exactly one MISSING_COORDINATES issue for an asset whose latitude or
\* longitude is absent, and none for an asset that has both.
C5_MissingCoordinatesIffAbsent ==
    result.op = "qa" =>
        \A i \in DOMAIN records :
            Cardinality(IssuesFor("MISSING_COORDINATES", records[i].id))
                = IF BothPresent(records[i]) THEN 0 ELSE 1

\* C6: a MISSING_FIELDS issue for an asset iff one of name, region, type,
\* status is empty, whatever other issues the asset has.
C6_MissingFieldsIffEmpty ==
    result.op = "qa" =>
        \A i \in DOMAIN records :
            (IssuesFor("MISSING_FIELDS", records[i].id) # {})
                <=> \E f \in {"name", "region", "type", "status"} : records[i][f] = <<>>

\* an inspected asset that carries MISSING_FIELDS together with DUPLICATE_POINT
C6_Witness ==
    /\ result.op = "qa"
    /\ \E i \in DOMAIN records :
          /\ records[i].status = <<>>
          /\ IssuesFor("MISSING_FIELDS", records[i].id) # {}
          /\ IssuesFor("DUPLICATE_POINT", records[i].id) # {}

\* the end-to-end dataset of the specification
ScenarioDataset ==
    << QaAsset(1, <<Num(1), Num(1)>>, "none"), QaAsset(2, <<Num(1), Num(1)>>, "name") >>

ScenarioIssues ==
    { [code |-> "DUPLICATE_POINT", assetId |-> QaId(1),
       message |-> <<"Shares coordinates with assets: ">> \o QaId(2) \o <<".">>],
      [code |-> "DUPLICATE_POINT", assetId |-> QaId(2),
       message |-> <<"Shares coordinates with assets: ">> \o QaId(1) \o <<".">>],
      [code |-> "MISSING_FIELDS", assetId |-> QaId(2),
       message |-> <<"One or more required fields are empty.">>] }

\* C7: for the dataset [A-1, A-2] at the same point, A-2 with an empty name,
\* inspect returns DUPLICATE_POINT for A-1 (naming A-2), DUPLICATE_POINT for
\* A-2 (naming A-1) and MISSING_FIELDS for A-2: three issues and no others.
C7_ScenarioThreeIssues ==
    (result.op = "qa" /\ records = ScenarioDataset) =>
        /\ Len(result.value) = 3
        /\ { result.value[n] : n \in DOMAIN result.value } = ScenarioIssues

C7_Witness == result.op = "qa" /\ records = ScenarioDataset

\* C8: an asset with a coordinate absent is never the subject of a
\* DUPLICATE_POINT issue and is never named in the message of one.
C8_AbsentNeverGrouped ==
    result.op = "qa" =>
        \A i \in DOMAIN records :
            ~BothPresent(records[i]) =>
                /\ IssuesFor("DUPLICATE_POINT", records[i].id) = {}
                /\ \A n \in DOMAIN result.value :
                      result.value[n].code = "DUPLICATE_POINT" =>
                          ~Includes(result.value[n].message, records[i].id)

-----------------------------------------------------------------------------
(* Specification SpecFilter: the two filter implementations applied to a   *)
(* list of assets and a query                                              *)

\* name, region, type, status and (latitude, longitude) of the assets handed
\* to the filter and the exporters; Undefined stands for a property the
\* stored record does not have
FilterShapes ==
    { << <<"A", "b">>, <<"R", "1">>, <<"T">>, <<"A", "c", "t", "i", "v", "e">>,
         <<Num(1), Num(1)>> >>,
      << <<"b", ".">>, <<"r", "2">>, <<"T">>, <<"A", "c", "t", "i", "v", "e">>,
         <<Num(-2), Num(23)>> >>,
      << <<"a", ",", "c">>, <<"R", ".">>, <<"U">>, <<"P", "l", "a", "n", "n", "e", "d">>,
         <<Num(1), Null>> >>,
      << <<"A", "\"", "b">>, <<"r", "2">>, <<"U">>, <<"P", "l", "a", "n", "n", "e", "d">>,
         <<Undefined, Undefined>> >> }

FilterAsset(i, sh) ==
    Spread([id |-> QaId(i), name |-> sh[1], region |-> sh[2], type |-> sh[3],
            status |-> sh[4], createdAt |-> <<"t", "0">>, updatedAt |-> <<"t", "0">>],
           Spread(OptProp("latitude", sh[5][1]), OptProp("longitude", sh[5][2])))

SearchParams == { QAbsent, QStr(<<"a">>), QStr(<<"B">>), QStr(<<".">>),
                  QStr(<<"A", ".">>) }
RegionParams == { QAbsent, QStr(<<"R", "1">>), QStr(<<"r", "1", ",", "R", "2">>),
                  QStr(<<",", "r", "2", ",">>), QStr(<<"r", ".">>) }
TypeParams == { QAbsent, QStr(<<",">>), QStr(<<"u", ",", "t">>) }
StatusParams == { QStr(<<>>), QStr(<<"p", "l", "a", "n", "n", "e", "d">>) }

InitFilter ==
    /\ \E n \in 0..MaxRecords :
          \E f \in [1..n -> FilterShapes] :
              records = [i \in 1..n |-> FilterAsset(i, f[i])]
    /\ query \in [search : SearchParams, region : RegionParams,
                  type : TypeParams, status : StatusParams]
    /\ result = NoResult
    /\ AllocIdle /\ MemIdle /\ DbIdle /\ ClientIdle

\* a filter that reverses the list it was given in place
FilterMemory_ReversesInput ==
    /\ result.op = "none"
    /\ result' = [op |-> "filterMemory", value |-> filterAssets(records, query)]
    /\ records' = [i \in 1..Len(records) |-> records[Len(records) + 1 - i]]
    /\ UNCHANGED <<query, allocVars, memVars, dbVars, clientVars>>

\* in-memory GET /api/assets: res.json(filterAssets(req.query))
FilterMemory ==
    /\ result.op = "none"
    /\ result' = [op |-> "filterMemory", value |-> filterAssets(records, query)]
    /\ UNCHANGED <<records, query, allocVars, memVars, dbVars, clientVars>>

\* persistent GET /api/assets: collection.find(buildMongoFilter(query)).toArray()
FilterMongo ==
    /\ result.op = "none"
    /\ result' = [op |-> "filterMongo", value |-> MongoFind(records, buildMongoFilter(query))]
    /\ UNCHANGED <<records, query, allocVars, memVars, dbVars, clientVars>>

\* GET /api/assets/export/csv of either variant: toCsv(filterAssets(req.query))
ExportCsv ==
    /\ result.op = "none"
    /\ \E found \in {filterAssets(records, query), MongoFind(records, buildMongoFilter(query))} :
          result' = [op |-> "csv", value |-> toCsv(found)]
    /\ UNCHANGED <<records, query, allocVars, memVars, dbVars, clientVars>>

\* GET /api/assets/export/geojson of either variant
ExportGeoJson ==
    /\ result.op = "none"
    /\ \E found \in {filterAssets(records, query), MongoFind(records, buildMongoFilter(query))} :
          result' = [op |-> "geojson", value |-> toGeoJson(found)]
    /\ UNCHANGED <<records, query, allocVars, memVars, dbVars, clientVars>>

NextFilter == FilterMemory \/ FilterMongo \/ ExportCsv \/ ExportGeoJson \/ Inspect

SpecFilter == InitFilter /\ [][NextFilter]_vars

\* the criteria set of a dimension: the non-empty comma-separated items of
\* the parameter, lower-cased
CriteriaSet(q) ==
    LET s == ToLowerCase(OrEmpty(q)) IN
    { SubSeq(s, i, j) : <<i, j>> \in
        { ij \in (1..Len(s)) \X (1..Len(s)) :
            /\ ij[1] <= ij[2]
            /\ \A k \in ij[1]..ij[2] : s[k] # ","
            /\ (ij[1] = 1 \/ s[ij[1] - 1] = ",")
            /\ (ij[2] = Len(s) \/ s[ij[2] + 1] = ",") } }

\* the record passes the criteria as section 3 of the specification defines it
Passes(asset, q) ==
    /\ \/ OrEmpty(q.search) = <<>>
       \/ Includes(ToLowerCase(asset.name), ToLowerCase(OrEmpty(q.search)))
    /\ \A f \in {"region", "type", "status"} :
          CriteriaSet(q[f]) = {} \/ ToLowerCase(asset[f]) \in CriteriaSet(q[f])

\* C3: filter returns exactly the assets whose lower-cased name contains the
\* lower-cased search string (or the search is empty) and whose region, type
\* and status each belong to the corresponding non-empty criteria set.
C3_FilterReturnsExactlyMatching ==
    result.op \in {"filterMemory", "filterMongo"} =>
        { result.value[n] : n \in DOMAIN result.value }
            = { records[i] : i \in { k \in DOMAIN records : Passes(records[k], query) } }

\* every dimension of the criteria is empty: no search text and no region,
\* type or status item
AllEmpty(q) ==
    /\ OrEmpty(q.search) = <<>>
    /\ \A f \in {"region", "type", "status"} : CriteriaSet(q[f]) = {}

\* C16: with all criteria empty, filter returns the whole collection, every
\* record once and in the collection's order.
C16_EmptyCriteriaReturnAll ==
    (result.op \in {"filterMemory", "filterMongo"} /\ AllEmpty(query))
        => result.value = records

\* the persistent filter has answered a query whose parameters are present
\* but empty, over a collection of two or more records
C16_Witness ==
    /\ result.op = "filterMongo" /\ AllEmpty(query)
    /\ query.type = QStr(<<",">>) /\ query.status = QStr(<<>>)
    /\ Len(records) >= 2 /\ result.value = records

\* list sub holds elements of list all in the order they have in all
InOrderOf(sub, all) ==
    \A m, n \in DOMAIN sub :
        m < n => \E i, j \in DOMAIN all : i < j /\ all[i] = sub[m] /\ all[j] = sub[n]

\* C17: filter, inspect and the exporters have no side effects: the list
\* they are given (its records, their field values, their order) is the same
\* after the call as before, and filter's result keeps the list's order.
C17_NoSideEffects ==
    [][/\ records' = records
       /\ result'.op \in {"filterMemory", "filterMongo"} =>
             InOrderOf(result'.value, records)]_vars

\* a filter with a search text has returned two records
C17_Witness ==
    /\ result.op \in {"filterMemory", "filterMongo"}
    /\ OrEmpty(query.search) # <<>>
    /\ Len(result.value) = 2

\* a reader of CSV text: fields are separated by "," and rows by a line
\* feed, except inside a quoted field; a quoted field runs from a double
\* quote to its closing quote, with "" inside standing for one quote.

RECURSIVE SplitOutsideQuotes(_, _)
\* the pieces of s between the separators that are not inside quotes (a
\* position is inside quotes when an odd number of quotes precede it)
SplitOutsideQuotes(s, sep) ==
    LET cuts == { k \in 1..Len(s) :
                    /\ s[k] = sep
                    /\ Cardinality({ j \in 1..(k - 1) : s[j] = "\"" }) % 2 = 0 }
    IN IF cuts = {} THEN <<s>>
       ELSE LET k == CHOOSE c \in cuts : \A d \in cuts : c <= d
            IN <<SubSeq(s, 1, k - 1)>> \o SplitOutsideQuotes(SubSeq(s, k + 1, Len(s)), sep)

RECURSIVE Undouble(_)
\* "" becomes one quote; a quote on its own makes the text bad
Undouble(s) ==
    IF s = <<>> THEN [text |-> <<>>, bad |-> FALSE]
    ELSE IF Head(s) # "\""
    THEN [Undouble(Tail(s)) EXCEPT !.text = <<Head(s)>> \o @]
    ELSE IF Len(s) >= 2 /\ s[2] = "\""
    THEN [Undouble(Tail(Tail(s))) EXCEPT !.text = <<"\"">> \o @]
    ELSE [text |-> <<>>, bad |-> TRUE]

\* one field as read: its text, whether it was quoted, whether it is bad
ReadField(f) ==
    IF Len(f) >= 2 /\ f[1] = "\"" /\ f[Len(f)] = "\""
    THEN LET inner == Undouble(SubSeq(f, 2, Len(f) - 1))
         IN [text |-> inner.text, quoted |-> TRUE, bad |-> inner.bad]
    ELSE [text |-> f, quoted |-> FALSE, bad |-> Includes(f, <<"\"">>)]

\* the rows of CSV text, each the list of its fields as read
ParsedCsv(s) ==
    LET lines == SplitOutsideQuotes(s, "\n") IN
    [i \in 1..Len(lines) |->
        LET fields == SplitOutsideQuotes(lines[i], ",") IN
        [k \in 1..Len(fields) |-> ReadField(fields[k])]]

\* the value of a coordinate as text: the number's digits, nothing when the
\* coordinate is absent
CoordText(c) == IF Present(c) THEN NumToStr(c.v) ELSE <<>>

\* the nine field values of an asset, in the order of the CSV columns
FieldValues(asset) ==
    << asset.id, asset.name, asset.region, asset.type, asset.status,
       CoordText(Prop(asset, "latitude")), CoordText(Prop(asset, "longitude")),
       asset.createdAt, asset.updatedAt >>

\* the lists of records an export of the current query may have been given:
\* the in-memory filter's result and the persistent query's result
Exported ==
    {filterAssets(records, query), MongoFind(records, buildMongoFilter(query))}

\* C22: in the CSV output every field of every asset row, numeric ones
\* included, is wrapped in double quotes with embedded quotes doubled, so
\* that removing the outer quotes and un-doubling the inner ones gives back
\* the field's value.
C22_CsvFieldsQuotedAndRecoverable ==
    result.op = "csv" =>
        LET rows == ParsedCsv(result.value) IN
        \E found \in Exported :
            /\ Len(rows) = Len(found) + 1
            /\ \A i \in DOMAIN found :
                  /\ Len(rows[i + 1]) = 9
                  /\ \A k \in 1..9 :
                        /\ rows[i + 1][k].quoted /\ ~rows[i + 1][k].bad
                        /\ rows[i + 1][k].text = FieldValues(found[i])[k]

\* the export holds a record whose name has a double quote and a record
\* whose name has a comma
C22_Witness ==
    /\ result.op = "csv"
    /\ \E found \in Exported :
          /\ Len(found) >= 2
          /\ \E i \in DOMAIN found : Includes(found[i].name, <<"\"">>)
          /\ \E i \in DOMAIN found : Includes(found[i].name, <<",">>)
          /\ result.value = toCsv(found)

\* the CSV columns in their fixed order
Columns ==
    << <<"i", "d">>, <<"n", "a", "m", "e">>, <<"r", "e", "g", "i", "o", "n">>,
       <<"t", "y", "p", "e">>, <<"s", "t", "a", "t", "u", "s">>,
       <<"l", "a", "t", "i", "t", "u", "d", "e">>,
       <<"l", "o", "n", "g", "i", "t", "u", "d", "e">>,
       <<"c", "r", "e", "a", "t", "e", "d", "A", "t">>,
       <<"u", "p", "d", "a", "t", "e", "d", "A", "t">> >>

\* C23: the CSV output is the header row followed by exactly one row per
\* exported asset, in the assets' order, rows joined by line feeds; every row
\* has nine fields in the order id, name, region, type, status, latitude,
\* longitude, createdAt, updatedAt; an absent coordinate is an empty quoted
\* field, never the word null or N/A.
C23_CsvHeaderRowsAndAbsentCoordinates ==
    result.op = "csv" =>
        LET rows == ParsedCsv(result.value) IN
        \E found \in Exported :
            /\ Len(rows) = Len(found) + 1
            /\ Len(rows[1]) = 9
            /\ \A k \in 1..9 : rows[1][k].text = Columns[k]
            /\ \A i \in DOMAIN found :
                  /\ Len(rows[i + 1]) = 9
                  /\ rows[i + 1][1].text = found[i].id
                  /\ rows[i + 1][2].text = found[i].name
                  /\ rows[i + 1][3].text = found[i].region
                  /\ rows[i + 1][4].text = found[i].type
                  /\ rows[i + 1][5].text = found[i].status
                  /\ rows[i + 1][8].text = found[i].createdAt
                  /\ rows[i + 1][9].text = found[i].updatedAt
                  /\ IF Present(Prop(found[i], "latitude"))
                     THEN rows[i + 1][6].text = NumToStr(found[i].latitude.v)
                     ELSE rows[i + 1][6] = [text |-> <<>>, quoted |-> TRUE, bad |-> FALSE]
                  /\ IF Present(Prop(found[i], "longitude"))
                     THEN rows[i + 1][7].text = NumToStr(found[i].longitude.v)
                     ELSE rows[i + 1][7] = [text |-> <<>>, quoted |-> TRUE, bad |-> FALSE]

\* the export holds two or more records, one with a coordinate that is null
\* and one with a coordinate property that is missing
C23_Witness ==
    /\ result.op = "csv"
    /\ \E found \in Exported :
          /\ Len(found) >= 2
          /\ \E i \in DOMAIN found : IsNull(Prop(found[i], "longitude"))
          /\ \E i \in DOMAIN found : "latitude" \notin DOMAIN found[i]
          /\ result.value = toCsv(found)

\* C24: the GeoJSON export is one FeatureCollection whose features are, one
\* to one and in order, the exported assets that have both coordinates
\* present; an asset with a coordinate absent gives no feature.
C24_GeoJsonFeaturesAreAssetsWithPoints ==
    result.op = "geojson" =>
        /\ result.value.type = "FeatureCollection"
        /\ \E found \in Exported :
              LET located == SelectSeq(found, BothPresent)
                  features == result.value.features
              IN /\ Len(features) = Len(located)
                 /\ \A i \in DOMAIN located :
                       features[i].properties.id = located[i].id

\* C25: every GeoJSON feature is a Point whose coordinates are the longitude
\* and then the latitude of its asset, and whose properties are exactly id,
\* name, region, type, status, createdAt and updatedAt of that asset, without
\* latitude or longitude.
C25_FeatureIsPointLongitudeFirst ==
    result.op = "geojson" =>
        \E found \in Exported :
            \A n \in DOMAIN result.value.features :
                LET feature == result.value.features[n] IN
                \E i \in DOMAIN found :
                    /\ feature.properties.id = found[i].id
                    /\ feature.type = "Feature"
                    /\ feature.geometry.type = "Point"
                    /\ feature.geometry.coordinates[1] = Prop(found[i], "longitude")
                    /\ feature.geometry.coordinates[2] = Prop(found[i], "latitude")
                    /\ Len(feature.geometry.coordinates) = 2
                    /\ DOMAIN feature.properties
                            = {"id", "name", "region", "type", "status",
                               "createdAt", "updatedAt"}
                    /\ \A f \in DOMAIN feature.properties :
                            feature.properties[f] = found[i][f]

\* a feature was exported for an asset whose latitude and longitude differ
C25_Witness ==
    /\ result.op = "geojson"
    /\ \E n \in DOMAIN result.value.features :
          \E i \in DOMAIN records :
              /\ result.value.features[n].properties.id = records[i].id
              /\ BothPresent(records[i])
              /\ records[i].latitude.v # records[i].longitude.v
    /\ Len(result.value.features) >= 2

\* C18: comparisons are exact after case-folding, also for criteria values
\* with characters special to regular expressions: the persistent variant's
\* query selects exactly the records the in-memory filterAssets selects.
C18_MongoFilterEqualsMemoryFilter ==
    result.op = "filterMongo" => result.value = filterAssets(records, query)

-----------------------------------------------------------------------------
(* Specification SpecGet: the read-only routes (list, QA, exports) of both *)
(* variants, given req.query as the query-string parser delivers it        *)

\* a parameter given more than once arrives as an array of strings
QArr(items) == [k |-> "array", s |-> items]

QueryFields == {"search", "region", "type", "status"}

\* (query.x ?? "").toLowerCase() where query.x is an array: an array has no
\* toLowerCase, the call throws a TypeError
CriteriaThrow(q) == \E f \in QueryFields : q[f].k = "array"

RECURSIVE ParenDepth(_, _)
\* nesting depth of "(" and ")" at the end of pattern p, -1 once a ")" has
\* no "(" before it
ParenDepth(p, depth) ==
    IF depth < 0 \/ p = <<>> THEN depth
    ELSE IF Head(p) = "(" THEN ParenDepth(Tail(p), depth + 1)
    ELSE IF Head(p) = ")" THEN ParenDepth(Tail(p), depth - 1)
    ELSE ParenDepth(Tail(p), depth)

\* the pattern does not compile: new RegExp throws a SyntaxError, the store
\* rejects the $regex
RegexSyntaxError(p) == ParenDepth(p, 0) # 0

\* building or running the persistent variant's query fails
MongoQueryThrows(q) ==
    \/ CriteriaThrow(q)
    \/ LET filters == buildMongoFilter(q) IN
       \E n \in 1..Len(filters) : \E m \in 1..Len(filters[n].patterns) :
           RegexSyntaxError(filters[n].patterns[m])

\* what the client gets: a status and a body; status 500 is the router's
\* answer to a synchronous throw, status 0 is no answer at all (the async
\* handler's promise is rejected and nothing observes it)
Answer(status, body) == [status |-> status, body |-> body]

\* filterAssets(req.query) of the in-memory variant: the records found, or
\* the synchronous throw that the router answers with 500
GetMemory(q) ==
    IF CriteriaThrow(q) THEN [failed |-> TRUE, status |-> 500, found |-> <<>>]
    ELSE [failed |-> FALSE, status |-> 200, found |-> filterAssets(records, q)]

\* await filterAssets(req.query) of the persistent variant: the records
\* found, or the rejection that nothing answers
GetMongo(q) ==
    IF MongoQueryThrows(q) THEN [failed |-> TRUE, status |-> 0, found |-> <<>>]
    ELSE [failed |-> FALSE, status |-> 200,
          found |-> MongoFind(records, buildMongoFilter(q))]

\* the handler's answer: the body made from the records found, unless the
\* filter failed
AnswerWith(got, body) ==
    IF got.failed THEN Answer(got.status, <<>>) ELSE Answer(200, body)

GetSearchParams == { QAbsent, QStr(<<>>), QStr(<<"a">>), QStr(<<"(">>),
                     QArr(<< <<"a">>, <<"b">> >>) }
GetRegionParams == { QAbsent, QStr(<<",", "r", "2", ",">>), QStr(<<"r", "(">>),
                     QArr(<< <<"r", "1">>, <<"r", "2">> >>) }
GetTypeParams == { QAbsent, QStr(<<",">>) }
GetStatusParams == { QAbsent, QStr(<<>>) }

InitGet ==
    /\ \E n \in 0..MaxRecords :
          \E f \in [1..n -> FilterShapes] :
              records = [i \in 1..n |-> FilterAsset(i, f[i])]
    /\ query \in [search : GetSearchParams, region : GetRegionParams,
                  type : GetTypeParams, status : GetStatusParams]
    /\ result = NoResult
    /\ AllocIdle /\ MemIdle /\ DbIdle /\ ClientIdle

\* GET /api/assets, in-memory variant
GetAssetsMemory ==
    /\ result.op = "none"
    /\ result' = [op |-> "list", value |-> AnswerWith(GetMemory(query), GetMemory(query).found)]
    /\ UNCHANGED <<records, query, allocVars, memVars, dbVars, clientVars>>

\* GET /api/assets, persistent variant
GetAssetsMongo ==
    /\ result.op = "none"
    /\ result' = [op |-> "list", value |-> AnswerWith(GetMongo(query), GetMongo(query).found)]
    /\ UNCHANGED <<records, query, allocVars, memVars, dbVars, clientVars>>

\* a QA route that inspects only the records the query's filter keeps
GetQa_Filtered ==
    /\ result.op = "none"
    /\ result' = [op |-> "qa",
                  value |-> AnswerWith(GetMemory(query),
                                       runQaChecks(GetMemory(query).found))]
    /\ UNCHANGED <<records, query, allocVars, memVars, dbVars, clientVars>>

\* GET /api/assets/qa of either variant: the query is not read
GetQa ==
    /\ result.op = "none"
    /\ result' = [op |-> "qa", value |-> Answer(200, runQaChecks(records))]
    /\ UNCHANGED <<records, query, allocVars, memVars, dbVars, clientVars>>

\* GET /api/assets/export/csv of either variant
GetCsv ==
    /\ result.op = "none"
    /\ \E got \in {GetMemory(query), GetMongo(query)} :
          result' = [op |-> "csv", value |-> AnswerWith(got, toCsv(got.found))]
    /\ UNCHANGED <<records, query, allocVars, memVars, dbVars, clientVars>>

\* GET /api/assets/export/geojson of either variant
GetGeoJson ==
    /\ result.op = "none"
    /\ \E got \in {GetMemory(query), GetMongo(query)} :
          result' = [op |-> "geojson", value |-> AnswerWith(got, toGeoJson(got.found))]
    /\ UNCHANGED <<records, query, allocVars, memVars, dbVars, clientVars>>

NextGet == GetAssetsMemory \/ GetAssetsMongo \/ GetQa \/ GetCsv \/ GetGeoJson

SpecGet == InitGet /\ [][NextGet]_vars

\* C19: the list, QA and export requests never fail: whatever the query
\* (absent parameters, empty strings, lists with empty items, a parameter
\* given more than once, special characters), the answer is a result, 200.
C19_ReadRequestsNeverFail ==
    result.op # "none" => result.value.status = 200

\* C21: the QA request inspects the full collection whatever query
\* parameters come with it: its result is the inspection of every record,
\* records the query's filter would exclude included.
C21_QaIgnoresQuery ==
    result.op = "qa" => result.value = Answer(200, runQaChecks(records))

\* a QA request came with a query whose filter excludes a record, and the
\* answer has an issue for that record
C21_Witness ==
    /\ result.op = "qa" /\ ~CriteriaThrow(query)
    /\ \E i \in DOMAIN records :
          /\ \A n \in DOMAIN filterAssets(records, query) :
                filterAssets(records, query)[n].id # records[i].id
          /\ \E n \in DOMAIN result.value.body :
                result.value.body[n].assetId = records[i].id

-----------------------------------------------------------------------------
(* Specification SpecAlloc: the loop of generateUniqueAssetId, one draw at *)
(* a time, against a fixed set of existing ids                             *)

\* every id the allocator can form: A-1000 .. A-9999
FullSpace == { <<"A", "-">> \o NumToStr(n) : n \in IdBase..(IdBase + IdSpan - 1) }

\* the ids the sampled draws lead to
DrawnIds == { Candidate(r) : r \in RandomDraws }

InitAlloc ==
    /\ existingIds \in (SUBSET (DrawnIds \cup {QaId(1)})) \cup {FullSpace}
    /\ attempts = 0
    /\ allocated = [state |-> "running", id |-> <<>>, draws |-> 0]
    /\ PureIdle /\ MemIdle /\ DbIdle /\ ClientIdle

\* one iteration of the loop body
Draw ==
    /\ allocated.state = "running"
    /\ LoopContinues(attempts)
    /\ \E r \in RandomDraws :
          IF Accepts(existingIds, Candidate(r))
          THEN /\ allocated' = [state |-> "returned", id |-> Candidate(r),
                                draws |-> allocated.draws + 1]
               /\ attempts' = attempts
          ELSE /\ allocated' = [allocated EXCEPT !.draws = @ + 1]
               /\ attempts' = attempts + 1
    /\ UNCHANGED <<existingIds, pureVars, memVars, dbVars, clientVars>>

\* the loop condition fails: throw new Error("Failed to generate unique asset ID")
Exhaust ==
    /\ allocated.state = "running"
    /\ ~LoopContinues(attempts)
    /\ allocated' = [allocated EXCEPT !.state = "thrown"]
    /\ UNCHANGED <<existingIds, attempts, pureVars, memVars, dbVars, clientVars>>

NextAlloc == Draw \/ Exhaust

SpecAlloc == InitAlloc /\ [][NextAlloc]_vars

\* the loop is a running computation: it takes its next step
SpecAllocFair == SpecAlloc /\ WF_vars(NextAlloc)

Digits == {"0", "1", "2", "3", "4", "5", "6", "7", "8", "9"}

\* "A-" followed by a four-digit number in 1000..9999
WellFormedId(id) ==
    /\ Len(id) = 6
    /\ id[1] = "A" /\ id[2] = "-"
    /\ id[3] \in Digits \ {"0"}
    /\ \A k \in 4..6 : id[k] \in Digits

\* C9: an identifier returned by allocate is "A-" followed by an integer in
\* [1000, 9999] and is not in the set of existing ids it was checked against.
C9_AllocatedIdFreshAndWellFormed ==
    allocated.state = "returned" =>
        /\ WellFormedId(allocated.id)
        /\ allocated.id \notin existingIds

\* an id returned after a draw that collided with an existing id
C9_Witness ==
    /\ allocated.state = "returned"
    /\ attempts > 0
    /\ existingIds # {}

\* C10: allocate ends after at most the attempt limit of draws; with every id
\* A-1000 .. A-9999 taken it ends in the exhaustion error, never in an id.
C10_AllocateTerminatesWithinLimit ==
    /\ [](allocated.draws <= MaxAttempts)
    /\ <>(allocated.state \in {"returned", "thrown"})
    /\ []((FullSpace \subseteq existingIds /\ allocated.state # "running")
            => (allocated.state = "thrown" /\ allocated.draws = MaxAttempts))

\* the full id space taken and the loop ended in the exhaustion error
C10_Witness ==
    /\ existingIds = FullSpace
    /\ allocated.state = "thrown"
    /\ allocated.draws = MaxAttempts

-----------------------------------------------------------------------------
(* Requests: tokens, payloads, the seed *)

\* the seed copy of the dataset (server/data.ts)
seedAssets ==
    << [id |-> <<"A", "-", "1", "0", "0", "0">>, name |-> <<"A", "b">>,
        region |-> <<"R", "1">>, type |-> <<"T">>,
        status |-> <<"A", "c", "t", "i", "v", "e">>,
        latitude |-> Num(1), longitude |-> Num(1),
        createdAt |-> <<"t", "0">>, updatedAt |-> <<"t", "0">>],
       [id |-> <<"A", "-", "9", "9", "9", "9">>, name |-> <<"a", "c">>,
        region |-> <<"r", "2">>, type |-> <<"U">>,
        status |-> <<"P", "l", "a", "n", "n", "e", "d">>,
        latitude |-> Null, longitude |-> Null,
        createdAt |-> <<"t", "0">>, updatedAt |-> <<"t", "0">>] >>

\* seedAssets.map((asset) => ({ ...asset }))
SeedCopy == [i \in 1..Len(seedAssets) |-> Spread(<<>>, seedAssets[i])]

\* the Authorization header: none, a token that does not verify, or a token
\* issued to the role
Tokens == {"missing", "invalid", "user", "admin"}

\* verifyToken: the payload's role, or null
verifyToken(token) == IF token \in {"user", "admin"} THEN token ELSE "null"

\* requireAdmin without the role test
Authorize_AnyRole(token) ==
    IF token = "missing" THEN 401
    ELSE IF verifyToken(token) = "null" THEN 401
    ELSE 0

\* authenticate then requireAdmin: the status they answer with, 0 when both
\* call next()
Authorize(token) ==
    IF token = "missing" THEN 401
    ELSE IF verifyToken(token) = "null" THEN 401
    ELSE IF verifyToken(token) # "admin" THEN 403
    ELSE 0

\* new Date().toISOString()
Times == { <<"t", "1">> }

\* bodies of POST /api/assets: one that also carries id and createdAt, and
\* one with an empty name and no latitude / longitude property
CreatePayloads ==
    { [id |-> <<"A", "-", "1", "0", "0", "0">>, createdAt |-> <<"t", "9">>,
       name |-> <<"X">>, region |-> <<"R">>, type |-> <<"T">>,
       status |-> <<"A", "c", "t", "i", "v", "e">>,
       latitude |-> Num(1), longitude |-> Num(1)],
      [name |-> <<>>, region |-> <<"R">>, type |-> <<"T">>,
       status |-> <<"A", "c", "t", "i", "v", "e">>] }

\* bodies of PUT /api/assets/:id
UpdateBodies ==
    { [name |-> <<"Y">>],
      [id |-> <<"A", "-", "9", "9", "9", "9">>, createdAt |-> <<"t", "9">>,
       latitude |-> Num(2)] }

\* the :id of PUT and DELETE: a seed record's, and one the allocator can give
TargetIds ==
    { seedAssets[1].id, Candidate([num |-> IdSpan, den |-> RandSteps * IdSpan]) }

\* a record in which the payload's own id, createdAt and updatedAt win
NewRecord_PayloadWins(payload, id, now) ==
    Spread([id |-> id, createdAt |-> now, updatedAt |-> now], payload)

\* const record = { ...payload, id, createdAt: now, updatedAt: now }
NewRecord(payload, id, now) ==
    Spread(payload, [id |-> id, createdAt |-> now, updatedAt |-> now])

\* { ...existing, ...req.body, id: existing.id, createdAt: existing.createdAt,
\*   updatedAt: new Date().toISOString() }
UpdatedRecord(existing, body, now) ==
    Spread(Spread(existing, body),
           [id |-> existing.id, createdAt |-> existing.createdAt, updatedAt |-> now])

\* findIndex((asset) => asset.id === id) / findOne({ id }): position of the
\* first record with the id, 0 when there is none
FindIndex(list, id) ==
    IF \E i \in 1..Len(list) : list[i].id = id
    THEN CHOOSE i \in 1..Len(list) : list[i].id = id /\ \A j \in 1..(i - 1) : list[j].id # id
    ELSE 0

\* splice(index, 1) / deleteOne: the list without position i
RemoveAt(list, i) == SubSeq(list, 1, i - 1) \o SubSeq(list, i + 1, Len(list))

\* the ids in a list of records
IdsOf(list) == { list[i].id : i \in DOMAIN list }

-----------------------------------------------------------------------------
(* Specification SpecDb: the persistent variant.  A handler runs up to its *)
(* next await on the collection; other requests run in between.  The       *)
(* collection is the list of its documents in insertion order; it has no   *)
(* unique index, and the store's own _id property is left out.             *)

Slots == 1..MaxRequests

\* requests are numbered in the order they arrive
Arrives(r) == reqs[r].kind = "none" /\ \A q \in 1..(r - 1) : reqs[q].kind # "none"

NoRequest ==
    [kind |-> "none", pc |-> "none", token |-> "none", id |-> <<>>, attempts |-> 0,
     body |-> <<>>, out |-> <<>>, status |-> 0]

\* startServer: ensureSeedData on an empty collection
InitDb ==
    /\ db = SeedCopy
    /\ reqs = [r \in Slots |-> NoRequest]
    /\ PureIdle /\ AllocIdle /\ MemIdle /\ ClientIdle

\* the handler has sent its response and returned: its locals (the body it
\* read, the record it built) are gone
Answered(req, status) ==
    [req EXCEPT !.pc = "done", !.status = status, !.body = <<>>, !.out = <<>>]

\* a request the middleware answers: 401 or 403, the handler does not run
Rejected(kind, token) ==
    [NoRequest EXCEPT !.kind = kind, !.pc = "done", !.token = token,
                      !.status = Authorize(token)]

\* POST /api/assets up to the first findOne
DbPostAsset(r) ==
    /\ Arrives(r)
    /\ \E token \in Tokens, payload \in CreatePayloads :
          reqs' = [reqs EXCEPT ![r] =
                     IF Authorize(token) # 0 THEN Rejected("create", token)
                     ELSE [NoRequest EXCEPT !.kind = "create", !.token = token, !.pc = "findOne",
                                            !.body = payload]]
    /\ UNCHANGED <<db, pureVars, allocVars, memVars, clientVars>>

\* one iteration of generateUniqueAssetId: draw, await findOne({ id: candidate });
\* on a free id the handler goes on to build the record
DbCreateFindOne(r) ==
    /\ reqs[r].kind = "create" /\ reqs[r].pc = "findOne"
    /\ LoopContinues(reqs[r].attempts)
    /\ \E rnd \in RandomDraws, now \in Times :
          reqs' = [reqs EXCEPT ![r] =
                     IF Accepts(IdsOf(db), Candidate(rnd))
                     THEN [@ EXCEPT !.pc = "insertOne", !.id = Candidate(rnd),
                                    !.out = NewRecord(reqs[r].body, Candidate(rnd), now)]
                     ELSE [@ EXCEPT !.attempts = @ + 1]]
    /\ UNCHANGED <<db, pureVars, allocVars, memVars, clientVars>>

\* the loop ends without an id: the throw rejects the async handler's promise;
\* the router (app.get("*") at line 283 is the 4.x path syntax) does not catch
\* a rejected promise, so no response is sent
DbCreateThrow(r) ==
    /\ reqs[r].kind = "create" /\ reqs[r].pc = "findOne"
    /\ ~LoopContinues(reqs[r].attempts)
    /\ reqs' = [reqs EXCEPT ![r].pc = "thrown"]
    /\ UNCHANGED <<db, pureVars, allocVars, memVars, clientVars>>

\* await collection.insertOne(record); res.status(201).json(record)
DbCreateInsertOne(r) ==
    /\ reqs[r].kind = "create" /\ reqs[r].pc = "insertOne"
    /\ db' = Append(db, reqs[r].out)
    /\ reqs' = [reqs EXCEPT ![r] = Answered(@, 201)]
    /\ UNCHANGED <<pureVars, allocVars, memVars, clientVars>>

\* PUT /api/assets/:id up to findOne({ id })
DbPutAsset(r) ==
    /\ Arrives(r)
    /\ \E token \in Tokens, id \in TargetIds, body \in UpdateBodies :
          reqs' = [reqs EXCEPT ![r] =
                     IF Authorize(token) # 0 THEN Rejected("update", token)
                     ELSE [NoRequest EXCEPT !.kind = "update", !.token = token, !.pc = "findOne",
                                            !.id = id, !.body = body]]
    /\ UNCHANGED <<db, pureVars, allocVars, memVars, clientVars>>

\* const existing = await collection.findOne({ id }); 404, or build `updated`
DbUpdateFindOne(r) ==
    /\ reqs[r].kind = "update" /\ reqs[r].pc = "findOne"
    /\ \E now \in Times :
          LET i == FindIndex(db, reqs[r].id) IN
          reqs' = [reqs EXCEPT ![r] =
                     IF i = 0 THEN Answered(@, 404)
                     ELSE [@ EXCEPT !.pc = "updateOne",
                                    !.out = UpdatedRecord(db[i], reqs[r].body, now)]]
    /\ UNCHANGED <<db, pureVars, allocVars, memVars, clientVars>>

\* await collection.updateOne({ id }, { $set: updated }); res.json(updated)
DbUpdateUpdateOne(r) ==
    /\ reqs[r].kind = "update" /\ reqs[r].pc = "updateOne"
    /\ LET i == FindIndex(db, reqs[r].id) IN
          db' = IF i = 0 THEN db ELSE [db EXCEPT ![i] = Spread(@, reqs[r].out)]
    /\ reqs' = [reqs EXCEPT ![r] = Answered(@, 200)]
    /\ UNCHANGED <<pureVars, allocVars, memVars, clientVars>>

\* DELETE /api/assets/:id up to deleteOne({ id })
DbDeleteAsset(r) ==
    /\ Arrives(r)
    /\ \E token \in Tokens, id \in TargetIds :
          reqs' = [reqs EXCEPT ![r] =
                     IF Authorize(token) # 0 THEN Rejected("delete", token)
                     ELSE [NoRequest EXCEPT !.kind = "delete", !.token = token, !.pc = "deleteOne",
                                            !.id = id]]
    /\ UNCHANGED <<db, pureVars, allocVars, memVars, clientVars>>

\* deleteOne answered without looking at result.deletedCount
DbDeleteOne_IgnoresCount(r) ==
    /\ reqs[r].kind = "delete" /\ reqs[r].pc = "deleteOne"
    /\ LET i == FindIndex(db, reqs[r].id) IN
          /\ db' = IF i = 0 THEN db ELSE RemoveAt(db, i)
          /\ reqs' = [reqs EXCEPT ![r] = Answered(@, 204)]
    /\ UNCHANGED <<pureVars, allocVars, memVars, clientVars>>

\* const result = await collection.deleteOne({ id }); 404 or 204
DbDeleteOne(r) ==
    /\ reqs[r].kind = "delete" /\ reqs[r].pc = "deleteOne"
    /\ LET i == FindIndex(db, reqs[r].id) IN
          /\ db' = IF i = 0 THEN db ELSE RemoveAt(db, i)
          /\ reqs' = [reqs EXCEPT ![r] = Answered(@, IF i = 0 THEN 404 ELSE 204)]
    /\ UNCHANGED <<pureVars, allocVars, memVars, clientVars>>

\* POST /api/assets/reset up to deleteMany({})
DbPostReset(r) ==
    /\ Arrives(r)
    /\ \E token \in Tokens :
          reqs' = [reqs EXCEPT ![r] =
                     IF Authorize(token) # 0 THEN Rejected("reset", token)
                     ELSE [NoRequest EXCEPT !.kind = "reset", !.token = token, !.pc = "deleteMany"]]
    /\ UNCHANGED <<db, pureVars, allocVars, memVars, clientVars>>

\* await collection.deleteMany({})
DbResetDeleteMany(r) ==
    /\ reqs[r].kind = "reset" /\ reqs[r].pc = "deleteMany"
    /\ db' = <<>>
    /\ reqs' = [reqs EXCEPT ![r].pc = "insertMany"]
    /\ UNCHANGED <<pureVars, allocVars, memVars, clientVars>>

\* await collection.insertMany(seedAssets.map(...)); res.status(200)
DbResetInsertMany(r) ==
    /\ reqs[r].kind = "reset" /\ reqs[r].pc = "insertMany"
    /\ db' = db \o SeedCopy
    /\ reqs' = [reqs EXCEPT ![r] = Answered(@, 200)]
    /\ UNCHANGED <<pureVars, allocVars, memVars, clientVars>>

NextDb ==
    \E r \in Slots :
        \/ DbPostAsset(r) \/ DbCreateFindOne(r) \/ DbCreateThrow(r) \/ DbCreateInsertOne(r)
        \/ DbPutAsset(r) \/ DbUpdateFindOne(r) \/ DbUpdateUpdateOne(r)
        \/ DbDeleteAsset(r) \/ DbDeleteOne(r)
        \/ DbPostReset(r) \/ DbResetDeleteMany(r) \/ DbResetInsertMany(r)

SpecDb == InitDb /\ [][NextDb]_vars

\* a collection an earlier run left in the store: the seed record A-1000 was
\* deleted and a later create drew its id again (ensureSeedData inserts the
\* seed only into an empty collection)
PersistedCollection ==
    << Spread(<<>>, seedAssets[2]),
       NewRecord([name |-> <<"X">>, region |-> <<"R">>, type |-> <<"T">>,
                  status |-> <<"A", "c", "t", "i", "v", "e">>,
                  latitude |-> Num(1), longitude |-> Num(1)],
                 seedAssets[1].id, <<"t", "1">>) >>

\* startServer on a collection that is not empty
InitDbPersisted ==
    /\ db = PersistedCollection
    /\ reqs = [r \in Slots |-> NoRequest]
    /\ PureIdle /\ AllocIdle /\ MemIdle /\ ClientIdle

SpecDbPersisted == InitDbPersisted /\ [][NextDb]_vars

-----------------------------------------------------------------------------
(* Specification SpecMem: the in-memory variant.  Every handler runs to    *)
(* its response without an await.                                          *)

\* let assets = seedAssets.map((asset) => ({ ...asset }))
InitMem ==
    /\ assets = SeedCopy
    /\ responses = <<>>
    /\ PureIdle /\ AllocIdle /\ DbIdle /\ ClientIdle

\* the server answers: kind of request, status, body
Respond(kind, status, body) ==
    responses' = Append(responses, [kind |-> kind, status |-> status, body |-> body])

\* POST /api/assets
MemPostAsset ==
    /\ Len(responses) < MaxRequests
    /\ \E token \in Tokens, payload \in CreatePayloads, now \in Times :
          IF Authorize(token) # 0
          THEN Respond("create", Authorize(token), <<>>) /\ UNCHANGED assets
          ELSE \E got \in generateUniqueAssetId(assets) :
                  IF got.state = "thrown"
                  THEN Respond("create", 500, <<>>) /\ UNCHANGED assets
                  ELSE /\ assets' = <<NewRecord(payload, got.id, now)>> \o assets
                       /\ Respond("create", 201, NewRecord(payload, got.id, now))
    /\ UNCHANGED <<pureVars, allocVars, dbVars, clientVars>>

\* PUT /api/assets/:id
MemPutAsset ==
    /\ Len(responses) < MaxRequests
    /\ \E token \in Tokens, id \in TargetIds, body \in UpdateBodies, now \in Times :
          LET index == FindIndex(assets, id) IN
          IF Authorize(token) # 0
          THEN Respond("update", Authorize(token), <<>>) /\ UNCHANGED assets
          ELSE IF index = 0
          THEN Respond("update", 404, <<>>) /\ UNCHANGED assets
          ELSE /\ assets' = [assets EXCEPT ![index] = UpdatedRecord(@, body, now)]
               /\ Respond("update", 200, UpdatedRecord(assets[index], body, now))
    /\ UNCHANGED <<pureVars, allocVars, dbVars, clientVars>>

\* DELETE /api/assets/:id
MemDeleteAsset ==
    /\ Len(responses) < MaxRequests
    /\ \E token \in Tokens, id \in TargetIds :
          LET index == FindIndex(assets, id) IN
          IF Authorize(token) # 0
          THEN Respond("delete", Authorize(token), <<>>) /\ UNCHANGED assets
          ELSE IF index = 0
          THEN Respond("delete", 404, <<>>) /\ UNCHANGED assets
          ELSE /\ assets' = RemoveAt(assets, index)
               /\ Respond("delete", 204, <<>>)
    /\ UNCHANGED <<pureVars, allocVars, dbVars, clientVars>>

\* POST /api/assets/reset
MemPostReset ==
    /\ Len(responses) < MaxRequests
    /\ \E token \in Tokens :
          IF Authorize(token) # 0
          THEN Respond("reset", Authorize(token), <<>>) /\ UNCHANGED assets
          ELSE /\ assets' = SeedCopy
               /\ Respond("reset", 200, <<>>)
    /\ UNCHANGED <<pureVars, allocVars, dbVars, clientVars>>

NextMem == MemPostAsset \/ MemPutAsset \/ MemDeleteAsset \/ MemPostReset

SpecMem == InitMem /\ [][NextMem]_vars

\* the in-memory collection never holds two records with the same id
MemIdsUnique ==
    \A i, j \in DOMAIN assets : i # j => assets[i].id # assets[j].id

\* C1: no two records of the collection have the same id, in any reachable
\* state and under any interleaving of create, update, delete and reset.
C1_IdsUnique ==
    \A i, j \in DOMAIN db : i # j => db[i].id # db[j].id

\* C2: allocate-and-insert of a create is serialized against the other
\* creates: two creates never insert records with the same id.
C2_CreatesInsertDistinctIds ==
    \A r1, r2 \in Slots :
        (/\ r1 # r2
         /\ reqs[r1].kind = "create" /\ reqs[r1].status = 201
         /\ reqs[r2].kind = "create" /\ reqs[r2].status = 201)
            => reqs[r1].id # reqs[r2].id

-----------------------------------------------------------------------------
(* Claims about the request handlers *)

\* the create request in slot r has used up its allocation attempts
Exhausted(r) ==
    reqs[r].kind = "create" /\ ~LoopContinues(reqs[r].attempts)

\* C11: a create whose identifier allocation is exhausted inserts no record
\* and is answered with a server-side failure (5xx); it is never left without
\* a response.
C11_ExhaustedCreateFailsWithServerError ==
    \A r \in Slots :
        Exhausted(r) =>
            /\ reqs[r].pc # "insertOne"
            /\ reqs[r].pc = "findOne" \/ (reqs[r].pc = "done" /\ reqs[r].status >= 500)

\* the in-memory variant answers an exhausted create with 500 and stores
\* nothing (the synchronous throw reaches the router's error handler)
MemExhaustedCreateAnswers500 ==
    [][(/\ responses' # responses
        /\ responses'[Len(responses')].kind = "create"
        /\ responses'[Len(responses')].status \notin {201, 401, 403})
          => /\ responses'[Len(responses')].status = 500
             /\ generateUniqueAssetId(assets) # {}
             /\ assets' = assets]_vars

\* the update or delete in slot r reads the collection in this step (findOne
\* of PUT, deleteOne of DELETE)
ReadsCollection(r) ==
    /\ reqs[r].kind \in {"update", "delete"}
    /\ reqs[r].pc \in {"findOne", "deleteOne"}
    /\ reqs'[r] # reqs[r]

\* C12: an update or delete addressed to an id that is not in the collection
\* is answered 404 and leaves the collection exactly as it was.
C12_AbsentIdIsNotFound ==
    [][\A r \in Slots :
          (ReadsCollection(r) /\ reqs[r].id \notin IdsOf(db))
             => /\ reqs'[r].pc = "done" /\ reqs'[r].status = 404
                /\ db' = db]_vars

\* an update and a delete have both been answered 404
C12_Witness ==
    /\ \E r \in Slots : reqs[r].kind = "update" /\ reqs[r].status = 404
    /\ \E r \in Slots : reqs[r].kind = "delete" /\ reqs[r].status = 404
    /\ db = SeedCopy

\* the in-memory variant: a 404 leaves assets as it was, and an update or
\* delete that is answered 200 / 204 addressed a record of the collection
MemAbsentIdIsNotFound ==
    [][(/\ responses' # responses
        /\ responses'[Len(responses')].kind \in {"update", "delete"})
          => LET last == responses'[Len(responses')] IN
             /\ last.status = 404 => assets' = assets
             /\ last.status \in {200, 204} =>
                   \E id \in TargetIds : id \in IdsOf(assets)
             /\ (\A id \in TargetIds : id \notin IdsOf(assets)) =>
                   last.status \in {401, 403, 404} /\ assets' = assets]_vars

\* the update in slot r writes in this step (updateOne) and is answered 200
UpdateLands(r) ==
    /\ reqs[r].kind = "update" /\ reqs[r].pc = "updateOne"
    /\ reqs'[r].pc = "done"

\* C13: an update never changes a stored record's id or createdAt, whatever
\* the request body carries: every record with the addressed id has the same
\* id and the same createdAt after the update as before it.
C13_UpdateKeepsIdAndCreatedAt ==
    [][\A r \in Slots :
          UpdateLands(r) =>
             /\ Len(db') = Len(db)
             /\ \A i \in DOMAIN db :
                   /\ db'[i].id = db[i].id
                   /\ db'[i].createdAt = db[i].createdAt]_vars

\* the in-memory variant: an update answered 200 leaves every record's id and
\* createdAt as they were, also for a body that carries id and createdAt
MemUpdateKeepsIdAndCreatedAt ==
    [][(/\ responses' # responses
        /\ responses'[Len(responses')].kind = "update")
          => /\ Len(assets') = Len(assets)
             /\ \A i \in DOMAIN assets :
                   /\ assets'[i].id = assets[i].id
                   /\ assets'[i].createdAt = assets[i].createdAt]_vars

\* C14: only an admin changes the dataset.  A create, update, delete or
\* reset with a missing or invalid token is answered 401, one with a user
\* token 403, in both cases without running the handler; every change of the
\* collection is a step of a request that carries an admin token.
C14_OnlyAdminChangesCollection ==
    [][/\ \A r \in Slots :
             /\ reqs'[r].token \in {"missing", "invalid"} =>
                   reqs'[r].pc = "done" /\ reqs'[r].status = 401
             /\ reqs'[r].token = "user" =>
                   reqs'[r].pc = "done" /\ reqs'[r].status = 403
       /\ db' # db =>
             \E r \in Slots : /\ reqs'[r] # reqs[r]
                              /\ verifyToken(reqs[r].token) = "admin"]_vars

\* a user's request was answered 403 and an admin's request has changed the
\* collection
C14_Witness ==
    /\ \E r \in Slots : reqs[r].token = "user" /\ reqs[r].status = 403
    /\ \E r \in Slots : /\ reqs[r].token = "admin" /\ reqs[r].pc = "done"
                         /\ reqs[r].status \in {200, 201, 204}
    /\ db # SeedCopy

\* the in-memory variant: a request answered 401 or 403 leaves assets as it
\* was
MemRejectedLeavesAssets ==
    [][(/\ responses' # responses
        /\ responses'[Len(responses')].status \in {401, 403})
          => assets' = assets]_vars

\* the reset in slot r completes in this step
ResetCompletes(r) ==
    /\ reqs[r].kind = "reset" /\ reqs[r].pc = "insertMany"
    /\ reqs'[r].pc = "done"

\* C15: when a reset request completes, the collection equals the seed copy,
\* whatever creates, updates and deletes came before it.
C15_ResetRestoresSeed ==
    [][\A r \in Slots : ResetCompletes(r) => db' = SeedCopy]_vars

\* C27: an update answered 200 has been applied to a record of the
\* collection: when the addressed record is gone at the update's write (a
\* delete took effect after the existence check), the update is answered 404,
\* and the deleted record is not created again.
C27_SuccessfulUpdateWasApplied ==
    [][\A r \in Slots :
          UpdateLands(r) =>
             IF reqs[r].id \in IdsOf(db)
             THEN reqs'[r].status = 200 /\ reqs[r].id \in IdsOf(db')
             ELSE reqs'[r].status = 404 /\ db' = db]_vars

\* every request has run to its end, and all of them are resets or creates
OnlyResetsAndCreatesCompleted ==
    /\ \A r \in Slots :
          /\ reqs[r].kind \in {"reset", "create"}
          /\ reqs[r].pc \in {"done", "thrown"}
    /\ \E r \in Slots : reqs[r].kind = "reset" /\ reqs[r].status = 200

\* C26: reset is atomic with respect to other requests: for any interleaving
\* of two resets, or of a reset with creates, once all requests have completed
\* the collection holds each seed record exactly once.
C26_ResetIsAtomic ==
    OnlyResetsAndCreatesCompleted =>
        \A s \in DOMAIN SeedCopy :
            Cardinality({ i \in DOMAIN db : db[i].id = SeedCopy[s].id }) = 1

\* the in-memory variant: after a reset is answered 200, assets equals the
\* seed copy
MemResetRestoresSeed ==
    [][(/\ responses' # responses
        /\ responses'[Len(responses')].kind = "reset"
        /\ responses'[Len(responses')].status = 200)
          => assets' = SeedCopy]_vars

\* GET /api/assets/qa on the collection reports an issue with this code for
\* the record's id
Reports(collection, code, id) ==
    LET issues == runQaChecks(collection) IN
    \E n \in DOMAIN issues : issues[n].code = code /\ issues[n].assetId = id

\* name, region or type of the record is empty
EmptyRequiredField(asset) ==
    \E f \in {"name", "region", "type"} : f \notin DOMAIN asset \/ asset[f] = <<>>

\* C20: validation never blocks a write: an admin's create or update is
\* never answered with a client-input error, and every stored record whose
\* name, region or type is empty, or whose coordinates are absent, gets the
\* MISSING_FIELDS / MISSING_COORDINATES issue for its id from inspect.
C20_StoredUnvalidatedAndReported ==
    /\ \A n \in DOMAIN responses :
          responses[n].kind \in {"create", "update"} =>
              responses[n].status \in {200, 201, 401, 403, 404, 500}
    /\ \A i \in DOMAIN assets :
          /\ EmptyRequiredField(assets[i]) =>
                Reports(assets, "MISSING_FIELDS", assets[i].id)
          /\ ~BothPresent(assets[i]) =>
                Reports(assets, "MISSING_COORDINATES", assets[i].id)

\* the record was stored without a latitude or without a longitude property
CoordinateOmitted(asset) ==
    "latitude" \notin DOMAIN asset \/ "longitude" \notin DOMAIN asset

\* C29: a record stored through create with latitude or longitude omitted
\* from the payload is treated as having absent coordinates by every later
\* operation: inspect reports MISSING_COORDINATES for it, it joins no
\* duplicate-point group, and the GeoJSON export has no feature for it.
C29_OmittedCoordinatesAreAbsent ==
    \A i \in DOMAIN assets :
        CoordinateOmitted(assets[i]) =>
            /\ Reports(assets, "MISSING_COORDINATES", assets[i].id)
            /\ ~Reports(assets, "DUPLICATE_POINT", assets[i].id)
            /\ \A n \in DOMAIN toGeoJson(assets).features :
                  toGeoJson(assets).features[n].properties.id # assets[i].id

\* the create in slot r inserts in this step and is answered 201
CreateLands(r) ==
    /\ reqs[r].kind = "create" /\ reqs[r].pc = "insertOne"
    /\ reqs'[r].status = 201

\* the delete in slot r is answered 204 in this step
DeleteLands(r) ==
    /\ reqs[r].kind = "delete" /\ reqs[r].pc = "deleteOne"
    /\ reqs'[r].status = 204

\* C30: each successful mutation touches only its target record.  A create
\* adds exactly one record, with the allocated id and createdAt equal to
\* updatedAt whatever the payload carries, and leaves the existing records
\* as they were; an update changes at most one record, one with the addressed
\* id; a delete removes one record with the addressed id and keeps the others
\* in their order.
C30_MutationTouchesOnlyTarget ==
    [][\A r \in Slots :
          /\ CreateLands(r) =>
                /\ Len(db') = Len(db) + 1
                /\ SubSeq(db', 1, Len(db)) = db
                /\ db'[Len(db')].id = reqs[r].id
                /\ db'[Len(db')].createdAt = db'[Len(db')].updatedAt
                /\ db'[Len(db')].createdAt \in Times
          /\ (UpdateLands(r) /\ reqs'[r].status = 200) =>
                /\ Len(db') = Len(db)
                /\ \A i \in DOMAIN db : db'[i] # db[i] => db[i].id = reqs[r].id
                /\ Cardinality({ i \in DOMAIN db : db'[i] # db[i] }) <= 1
          /\ DeleteLands(r) =>
                \E i \in DOMAIN db :
                    db[i].id = reqs[r].id /\ db' = RemoveAt(db, i)]_vars

\* a create whose payload carried an id and a createdAt of its own was
\* answered 201, and an update or a delete was answered 200 / 204
C30_Witness ==
    /\ \E r \in Slots : reqs[r].kind = "create" /\ reqs[r].status = 201
    /\ \E r \in Slots :
          \/ reqs[r].kind = "update" /\ reqs[r].status = 200
          \/ reqs[r].kind = "delete" /\ reqs[r].status = 204
    /\ \E i \in DOMAIN db : db[i].name \in {<<"X">>, <<"Y">>} /\ db[i].createdAt \in Times

\* the in-memory variant: the same frame for the three handlers
MemMutationTouchesOnlyTarget ==
    [][(responses' # responses) =>
          LET last == responses'[Len(responses')] IN
          /\ (last.kind = "create" /\ last.status = 201) =>
                /\ Len(assets') = Len(assets) + 1
                /\ Tail(assets') = assets
                /\ assets'[1].id \notin IdsOf(assets)
                /\ assets'[1].createdAt = assets'[1].updatedAt
                /\ assets'[1].createdAt \in Times
          /\ (last.kind = "update" /\ last.status = 200) =>
                /\ Len(assets') = Len(assets)
                /\ \A i \in DOMAIN assets :
                      assets'[i] # assets[i] => assets[i].id = last.body.id
                /\ Cardinality({ i \in DOMAIN assets : assets'[i] # assets[i] }) <= 1
          /\ (last.kind = "delete" /\ last.status = 204) =>
                \E i \in DOMAIN assets : assets' = RemoveAt(assets, i)]_vars

-----------------------------------------------------------------------------
(* Specification SpecClient: the App component loading the asset list.     *)
(* A change of the filter criteria runs the effect that calls loadAssets;  *)
(* each call awaits its two GET /api/assets responses, which arrive in any *)
(* order relative to those of other calls.  The server is the in-memory    *)
(* variant with the seed collection, and nothing changes it here.          *)

RECURSIVE TrimStart(_)
TrimStart(s) == IF s # <<>> /\ Head(s) = " " THEN TrimStart(Tail(s)) ELSE s

RECURSIVE TrimEnd(_)
TrimEnd(s) ==
    IF s # <<>> /\ s[Len(s)] = " " THEN TrimEnd(SubSeq(s, 1, Len(s) - 1)) ELSE s

\* String.prototype.trim
Trim(s) == TrimEnd(TrimStart(s))

\* one entry of toQuery: an array is joined by commas, a string is trimmed,
\* and an empty value sets no parameter
QueryEntry(key, value) ==
    IF key = "search"
    THEN (IF Trim(value) # <<>> THEN QStr(Trim(value)) ELSE QAbsent)
    ELSE (IF Len(value) > 0 THEN QStr(Join(value, <<",">>)) ELSE QAbsent)

\* toQuery(filters), as the req.query the server reads from it
toQuery(f) == [key \in DOMAIN f |-> QueryEntry(key, f[key])]

\* getAssets(filters) when the fetch succeeds
getAssets(f) == filterAssets(assets, toQuery(f))

\* texts typed into the search box
SearchTexts == { <<>>, <<" ", "c">> }

\* values picked in the multiple selects
SelectValues(key) ==
    IF key = "region" THEN { <<>>, << <<"R", "1">> >> }
    ELSE IF key = "type" THEN { <<>>, << <<"T">> >> }
    ELSE { <<>>, << <<"P", "l", "a", "n", "n", "e", "d">> >> }

InitClient ==
    /\ ClientIdle
    /\ assets = SeedCopy
    /\ responses = <<>>
    /\ PureIdle /\ AllocIdle /\ DbIdle

\* loadAssets up to its await: setLoading(true); setError(""); both requests
\* are sent with the criteria of the render that called it
LoadStarts(f) ==
    /\ Len(loads) < MaxLoads
    /\ loading' = TRUE
    /\ error' = ""
    /\ loads' = Append(loads, f)

\* handleLogin succeeds: setSession, and the effect calls loadAssets
HandleLogin ==
    /\ ~session
    /\ session' = TRUE
    /\ LoadStarts(appFilters)
    /\ UNCHANGED <<appFilters, viewAssets, allAssets, pureVars, allocVars, memVars, dbVars>>

\* handleLogout: setSession(null); setAssets([]); the effect returns at once
HandleLogout ==
    /\ session
    /\ session' = FALSE
    /\ viewAssets' = <<>>
    /\ UNCHANGED <<appFilters, allAssets, loading, error, loads,
                   pureVars, allocVars, memVars, dbVars>>

\* onChange of the search box: setFilters({ ...filters, search })
ChangeSearch ==
    /\ session
    /\ \E text \in SearchTexts :
          /\ text # appFilters.search
          /\ appFilters' = [appFilters EXCEPT !.search = text]
          /\ LoadStarts(appFilters')
    /\ UNCHANGED <<session, viewAssets, allAssets, pureVars, allocVars, memVars, dbVars>>

\* onChange of a multiple select: setFilters({ ...filters, [key]: value })
ChangeSelect ==
    /\ session
    /\ \E key \in {"region", "type", "status"} :
          \E value \in SelectValues(key) :
              /\ value # appFilters[key]
              /\ appFilters' = [appFilters EXCEPT ![key] = value]
              /\ LoadStarts(appFilters')
    /\ UNCHANGED <<session, viewAssets, allAssets, pureVars, allocVars, memVars, dbVars>>

\* the Clear button, enabled by hasActiveFilters: setFilters({ ...defaultFilters })
ClearFilters ==
    /\ session
    /\ \/ Trim(appFilters.search) # <<>>
       \/ \E key \in {"region", "type", "status"} : Len(appFilters[key]) > 0
    /\ appFilters' = defaultFilters
    /\ LoadStarts(appFilters')
    /\ UNCHANGED <<session, viewAssets, allAssets, pureVars, allocVars, memVars, dbVars>>

\* both responses of one call have arrived: setAssets(data);
\* setAllAssets(full); finally setLoading(false)
LoadResolves ==
    /\ \E n \in DOMAIN loads :
          /\ viewAssets' = getAssets(loads[n])
          /\ allAssets' = getAssets(defaultFilters)
          /\ loads' = RemoveAt(loads, n)
    /\ loading' = FALSE
    /\ UNCHANGED <<session, appFilters, error, pureVars, allocVars, memVars, dbVars>>

\* a request of one call fails: setError(message); finally setLoading(false)
LoadRejects ==
    /\ \E n \in DOMAIN loads : loads' = RemoveAt(loads, n)
    /\ error' = "Failed to load assets"
    /\ loading' = FALSE
    /\ UNCHANGED <<session, appFilters, viewAssets, allAssets,
                   pureVars, allocVars, memVars, dbVars>>

NextClient ==
    \/ HandleLogin \/ HandleLogout
    \/ ChangeSearch \/ ChangeSelect \/ ClearFilters
    \/ LoadResolves \/ LoadRejects

SpecClient == InitClient /\ [][NextClient]_vars

\* C28: after any sequence of filter changes, once every load request in
\* flight has completed (and none failed since the last one was sent), the
\* displayed list is the server's result for the currently selected criteria.
C28_DisplayedListMatchesSelectedCriteria ==
    (session /\ loads = <<>> /\ error = "")
        => viewAssets = filterAssets(assets, toQuery(appFilters))

====
